---- MODULE Spec2Model ----
(***************************************************************************)
(* A model of the Kinect shadow server (kinect_server.py): the depth-to-   *)
(* grid reducer get_shadow_mask, the viewer session handler handle_client  *)
(* and the broadcast loop broadcast_shadow_data; and of the tilt tool       *)
(* (kinect_tilt.py): main and set_kinect_tilt.                             *)
(***************************************************************************)
EXTENDS Integers, Sequences, FiniteSets, TLC

(***************************************************************************)
(* Bounds of the model.                                                    *)
(***************************************************************************)
\* Depth frames have 1..MaxDepth rows and 1..MaxDepth columns.
MaxDepth == 2
\* Integer grid dimensions a viewer (or the command line) sets: -1..MaxGrid.
MaxGrid == 2

\* Viewer sessions are 1..NumSessions, each connecting at most once.
NumSessions == 2
\* The broadcast loop runs at most MaxFrames cycles with a non-empty set.
MaxFrames == 2

\* The tilt tool is given angles up to MaxExcess degrees beyond the limits.
MaxExcess == 1

\* The lower sanity bound of a region's mean depth (avg_depth > 400).
SanityFloor == 400

\* The depth samples (mm) a frame holds: one below and one above the floor.
DepthValues == {398, 402}
\* The integer thresholds (mm) in use.
Thresholds == {402, 403}

(***************************************************************************)
(* JSON values as the handler and the reducer meet them: an integer, or a  *)
(* value of another type (a string such as "abc"; a float, null or list    *)
(* behave alike wherever the model uses JStr).                             *)
(***************************************************************************)
JInt(i) == [k |-> "int", n |-> i]
JStr == [k |-> "str", n |-> 0]
JFloat(i) == [k |-> "float", n |-> i]
IsInt(v) == v.k = "int"

GridInts == -1..MaxGrid
GridValues == {JInt(i) : i \in GridInts} \cup {JStr}

(***************************************************************************)
(* The sensor: freenect.sync_get_depth() returns a frame or raises.        *)
(***************************************************************************)
FramesOf(H, W) == [1..H -> [1..W -> DepthValues]]
Frames == UNION {FramesOf(H, W) : H \in 1..MaxDepth, W \in 1..MaxDepth}
ReadFailure == [ok |-> FALSE, frame |-> <<>>]
ReadOk(f) == [ok |-> TRUE, frame |-> f]
NoRead == [ok |-> FALSE, frame |-> <<0>>]
SensorReads == {ReadOk(f) : f \in Frames} \cup {ReadFailure}

\* The scene in front of the sensor while the server runs: full-size frames
\* with somebody in range on the left column, or on all of them.
SceneFrames ==
    {[y \in 1..MaxDepth |-> [x \in 1..MaxDepth |-> IF x <= near THEN 402 ELSE 398]] :
        near \in {1, MaxDepth}}
SceneReads == {ReadOk(f) : f \in SceneFrames} \cup {ReadFailure}

(***************************************************************************)
(* Viewer messages (line 121): the text of one message, by what            *)
(* json.loads makes of it.                                                 *)
(*   "badjson": not JSON;  "scalar": a number, null or boolean;            *)
(*   "text": a JSON string or list without the two field names in it;      *)
(*   "record": an object, with its `threshold` and `grid_size` members.    *)
(***************************************************************************)
Absent == [k |-> "absent", n |-> 0]
NoGridSize == [k |-> "absent", width |-> Absent, height |-> Absent]
BadGridSize == [k |-> "str", width |-> Absent, height |-> Absent]
GridSizeObj(w, h) == [k |-> "obj", width |-> w, height |-> h]
\* The grid_size members viewers send: no object; an object that lacks a
\* member; a well-formed one; one with a negative or a non-integer member.
GridSizes ==
    {BadGridSize,
     GridSizeObj(Absent, JInt(1)), GridSizeObj(JInt(1), Absent),
     GridSizeObj(JInt(1), JInt(MaxGrid)),
     GridSizeObj(JInt(0), JInt(MaxGrid)), GridSizeObj(JInt(-1), JInt(MaxGrid)),
     GridSizeObj(JStr, JInt(1)), GridSizeObj(JInt(1), JStr)}
\* The threshold members viewers send: 402, 402.5 and "abc".
ThresholdValues == {JInt(402), JFloat(402), JStr}
Record(t, g) == [shape |-> "record", threshold |-> t, grid_size |-> g]
\* The messages viewers send: the three that are no record, a record with
\* neither member, with one of them, and some with both.
ViewerMessages ==
    {[shape |-> sh, threshold |-> Absent, grid_size |-> NoGridSize] :
        sh \in {"badjson", "scalar", "text"}}
        \cup {Record(Absent, NoGridSize)}
        \cup {Record(t, NoGridSize) : t \in ThresholdValues}
        \cup {Record(Absent, g) : g \in GridSizes}
        \cup {Record(JInt(402), g) :
                g \in {BadGridSize, GridSizeObj(JInt(1), Absent),
                       GridSizeObj(JInt(1), JInt(MaxGrid))}}
        \cup {Record(JStr, GridSizeObj(JInt(1), JInt(MaxGrid)))}
\* The messages of viewers that only watch: text that is not JSON, a bare
\* number, the threshold the server was started with, and a grid_size whose
\* width is no integer.
PlainMessages ==
    {[shape |-> sh, threshold |-> Absent, grid_size |-> NoGridSize] :
        sh \in {"badjson", "scalar"}}
        \cup {Record(JInt(403), NoGridSize), Record(Absent, GridSizeObj(JStr, JInt(1)))}
\* The messages of viewers that keep to the wire format: a threshold, and a
\* grid_size with integer members, negative and zero included.
UpdateMessages ==
    {Record(JInt(402), NoGridSize)}
        \cup {Record(Absent, GridSizeObj(JInt(w), JInt(MaxGrid))) : w \in {-1, 0, 1}}

Sessions == 1..NumSessions

VARIABLES
    grid_width, grid_height, depth_threshold,   \* self.grid_width, ... (lines 46-48)
    clients,       \* self.clients (line 49)
    depth,         \* the result of the last freenect.sync_get_depth() (line 76)
    mask,          \* the grid get_shadow_mask returned (line 154)
    raised,        \* get_shadow_mask raised instead of returning
    polls,         \* the number of sensor reads made so far (line 76)
    hpc,           \* per session: "new", "open" (in the async for), "ended"
    chan,          \* per session, the transport: "open" or "closed"
    pcLoop,        \* broadcast_shadow_data: "sleep", "gather", "raised"
    frame_count,   \* line 149
    message,       \* line 160
    targets,       \* the connections the fan-out of line 175 was built from
    pending,       \* the sends of the gather that have not settled yet
    failed         \* the sends of the gather that raised

maskVars == <<grid_width, grid_height, depth_threshold, depth, mask, raised, polls>>
configVars == <<grid_width, grid_height, depth_threshold>>
sessionVars == <<clients, hpc, chan>>
loopVars == <<depth, mask, raised, polls, pcLoop, frame_count, message, targets, pending, failed>>
serverVars == <<clients, hpc, chan, pcLoop, frame_count, message, targets, pending, failed>>

VARIABLES
    argv,          \* sys.argv[1:]: missing, not an integer, or an integer
    angle,         \* the local `angle` of main, then of set_kinect_tilt
    tpc,           \* the step the tilt run has reached
    ctx, dev,      \* the context and the device: "none", "held", "released"
    issued,        \* the angles given to freenect.set_tilt_degs
    tlog,          \* the libfreenect calls made so far, with their outcome
    printed,       \* the diagnostics printed so far
    exit_code      \* the code of sys.exit, NoExit while the tool runs

tiltVars == <<argv, angle, tpc, ctx, dev, issued, tlog, printed, exit_code>>
vars == <<maskVars, serverVars, tiltVars>>

(***************************************************************************)
(* get_shadow_mask                                                         *)
(***************************************************************************)
RECURSIVE SumSeq(_)
SumSeq(s) == IF s = <<>> THEN 0 ELSE Head(s) + SumSeq(Tail(s))

\* Python's s[a:b] for 0 <= a and b <= len(s): empty when a >= b.
Slice(s, a, b) == SubSeq(s, a + 1, b)

\* len(range(v)) for an integer v.
RangeLen(i) == IF i > 0 THEN i ELSE 0

\* A plausible slip: the rows taken from the top of the frame.
RegionFromTop(d, dy1, dy2, dx1, dx2) ==
    [i \in 1..RangeLen(dy2 - dy1) |-> Slice(d[i], dx1, dx2)]

\* depth[dy1:dy2, dx1:dx2]: the rows of the region.
RegionOf(d, dy1, dy2, dx1, dx2) ==
    [i \in 1..RangeLen(dy2 - dy1) |-> Slice(d[dy1 + i], dx1, dx2)]

\* np.mean(region) as the exact quotient sum / n; n = 0 is NaN (the mean of
\* an empty slice, which numpy returns with a warning, not an exception).
np_mean(region) ==
    [sum |-> SumSeq([i \in 1..Len(region) |-> SumSeq(region[i])]),
     n   |-> IF Len(region) = 0 THEN 0 ELSE Len(region) * Len(region[1])]

\* avg < k and avg > k for an integer k; every comparison with NaN is False.
\* A plausible slip: <= for <.
MeanLessOrEqual(avg, k) == avg.n > 0 /\ avg.sum <= k * avg.n
MeanLess(avg, k) == avg.n > 0 /\ avg.sum < k * avg.n
MeanGreater(avg, k) == avg.n > 0 /\ avg.sum > k * avg.n

\* Lines 86-93: the number of samples np.mean averages for cell (gx, gy).
region_size(d, gx, gy, gw, gh) ==
    LET depth_height == Len(d)
        depth_width == Len(d[1])
        dx1 == (gx * depth_width) \div gw
        dx2 == ((gx + 1) * depth_width) \div gw
        dy1 == (gy * depth_height) \div gh
        dy2 == ((gy + 1) * depth_height) \div gh
    IN  np_mean(RegionOf(d, dy1, dy2, dx1, dx2)).n

\* Lines 86-97: the value of grid cell (gx, gy), 0-based, of a gw x gh grid.
is_shadow(d, gx, gy, gw, gh, thr) ==
    LET depth_height == Len(d)
        depth_width == Len(d[1])
        dx1 == (gx * depth_width) \div gw
        dx2 == ((gx + 1) * depth_width) \div gw
        dy1 == (gy * depth_height) \div gh
        dy2 == ((gy + 1) * depth_height) \div gh
        avg_depth == np_mean(RegionOf(d, dy1, dy2, dx1, dx2))
    IN  MeanLess(avg_depth, thr) /\ MeanGreater(avg_depth, SanityFloor)

\* The except branch: [[False] * grid_width for _ in range(grid_height)].
\* range() of a non-integer raises; so does [False] * w for a non-integer w,
\* which is evaluated only when there is at least one row.
EmptyMask(gw, gh) ==
    IF ~IsInt(gh) THEN [raised |-> TRUE, mask |-> <<>>]
    ELSE IF RangeLen(gh.n) = 0 THEN [raised |-> FALSE, mask |-> <<>>]
    ELSE IF ~IsInt(gw) THEN [raised |-> TRUE, mask |-> <<>>]
    ELSE [raised |-> FALSE,
          mask |-> [gy \in 1..gh.n |-> [gx \in 1..RangeLen(gw.n) |-> FALSE]]]

\* The try body fails when the sensor read raises, when range(grid_height)
\* raises, or when there is a row and range(grid_width) raises.
TryFails(read, gw, gh) ==
    \/ ~read.ok
    \/ ~IsInt(gh)
    \/ RangeLen(gh.n) > 0 /\ ~IsInt(gw)

\* A plausible slip: the two loops exchanged (a row per grid column).
get_shadow_mask_transposed(read, gw, gh, thr) ==
    IF TryFails(read, gw, gh) THEN EmptyMask(gw, gh)
    ELSE [raised |-> FALSE,
          mask |-> [gx \in 1..RangeLen(gw.n) |->
                      [gy \in 1..RangeLen(gh.n) |->
                          is_shadow(read.frame, gx - 1, gy - 1, gw.n, gh.n, thr)]]]

get_shadow_mask(read, gw, gh, thr) ==
    IF TryFails(read, gw, gh) THEN EmptyMask(gw, gh)
    ELSE [raised |-> FALSE,
          mask |-> [gy \in 1..RangeLen(gh.n) |->
                      [gx \in 1..RangeLen(gw.n) |->
                          is_shadow(read.frame, gx - 1, gy - 1, gw.n, gh.n, thr)]]]

NoMessage ==
    [type |-> "none", data |-> <<>>,
     metadata |-> [grid_width |-> Absent, grid_height |-> Absent, threshold |-> 0,
                   shadow_cells |-> 0, frame |-> 0]]

(***************************************************************************)
(* kinect_tilt.py                                                          *)
(***************************************************************************)
\* Line 31: the motor limits, in degrees.
TiltLimit == 30
NoExit == -1

NoArg == [k |-> "missing", n |-> 0]
Angles == {0} \cup {TiltLimit + e : e \in 0..MaxExcess} \cup {-TiltLimit - e : e \in 0..MaxExcess}
\* The command lines: no (or more than one) argument, an argument int()
\* rejects, an integer.
TiltArgs == {NoArg, JStr} \cup {JInt(a) : a \in Angles}

Max(a, b) == IF a >= b THEN a ELSE b
Min(a, b) == IF a <= b THEN a ELSE b
\* A plausible slip: the lower limit left out.
ClampUpper(a) == Min(TiltLimit, a)
\* Lines 31 and 109: max(-30, min(30, angle)).
clamp(a) == Max(-TiltLimit, Min(TiltLimit, a))

\* A libfreenect call returns what was asked for, returns None, or raises.
Outcomes == {"ok", "none", "raise"}
Call(op, r) == <<op, r>>

\* A plausible slip: the context shut down before the device is closed.
ReleaseReversed == <<"shutdown", "close_device">>
\* Lines 68-69.
ReleaseOrder == <<"close_device", "shutdown">>

\* The state before the tool has run on command line a.
TiltStart(a) ==
    /\ argv = a
    /\ angle = 0
    /\ tpc = "main"
    /\ ctx = "none"
    /\ dev = "none"
    /\ issued = <<>>
    /\ tlog = <<>>
    /\ printed = {}
    /\ exit_code = NoExit

\* The state of the server before start().
ServerStart ==
    /\ depth = NoRead
    /\ mask = <<>>
    /\ raised = FALSE
    /\ polls = 0
    /\ clients = {}
    /\ hpc = [s \in Sessions |-> "new"]
    /\ chan = [s \in Sessions |-> "open"]
    /\ pcLoop = "sleep"
    /\ frame_count = 0
    /\ message = NoMessage
    /\ targets = {}
    /\ pending = {}
    /\ failed = {}

\* Lines 86-110 of main: the argument is checked, parsed and validated.
TiltMain ==
    /\ tpc = "main" /\ exit_code = NoExit
    /\ IF argv = NoArg
       THEN /\ printed' = printed \cup {"usage"}
            /\ exit_code' = 1
            /\ UNCHANGED <<angle, tpc>>
       ELSE IF ~IsInt(argv)
       THEN /\ printed' = printed \cup {"not a valid angle"}
            /\ exit_code' = 1
            /\ UNCHANGED <<angle, tpc>>
       ELSE /\ IF argv.n < -TiltLimit \/ argv.n > TiltLimit
               THEN /\ printed' = printed \cup {"warning"}
                    /\ angle' = clamp(argv.n)
               ELSE /\ printed' = printed
                    /\ angle' = argv.n
            /\ tpc' = "call"
            /\ UNCHANGED exit_code
    /\ UNCHANGED <<argv, ctx, dev, issued, tlog>>
    /\ UNCHANGED <<maskVars, serverVars>>

\* Lines 113, 31-33: set_kinect_tilt is entered and clamps its argument.
TiltEnter ==
    /\ tpc = "call"
    /\ angle' = clamp(angle)
    /\ tpc' = "Uninitialized"
    /\ UNCHANGED <<argv, ctx, dev, issued, tlog, printed, exit_code>>
    /\ UNCHANGED <<maskVars, serverVars>>

\* Lines 37-40 (and 73-75): freenect.init().
TiltInitContext ==
    /\ tpc = "Uninitialized"
    /\ \E r \in Outcomes :
          /\ tlog' = Append(tlog, Call("init", r))
          /\ ctx' = IF r = "ok" THEN "held" ELSE ctx
          /\ tpc' = IF r = "ok" THEN "ContextOpen" ELSE "Failed"
          /\ printed' = printed \cup
                (CASE r = "ok" -> {} [] r = "none" -> {"init failed"} [] OTHER -> {"error"})
    /\ UNCHANGED <<argv, angle, dev, issued, exit_code>>
    /\ UNCHANGED <<maskVars, serverVars>>

\* Lines 43-47 (and 73-75): freenect.open_device(ctx, 0); when it returns
\* None the context is shut down.
TiltOpenDevice ==
    /\ tpc = "ContextOpen"
    /\ \E r \in Outcomes :
          /\ tlog' = IF r = "none"
                     THEN tlog \o <<Call("open_device", r), Call("shutdown", "ok")>>
                     ELSE Append(tlog, Call("open_device", r))
          /\ dev' = IF r = "ok" THEN "held" ELSE dev
          /\ ctx' = IF r = "none" THEN "released" ELSE ctx
          /\ tpc' = IF r = "ok" THEN "DeviceOpen" ELSE "Failed"
          /\ printed' = printed \cup
                (CASE r = "ok" -> {} [] r = "none" -> {"open failed"} [] OTHER -> {"error"})
    /\ UNCHANGED <<argv, angle, issued, exit_code>>
    /\ UNCHANGED <<maskVars, serverVars>>

\* Lines 53 (and 73-75): freenect.set_tilt_degs(dev, angle); what it returns
\* is not looked at.
TiltCommand ==
    /\ tpc = "DeviceOpen"
    /\ \E r \in {"ok", "raise"} :
          /\ tlog' = Append(tlog, Call("set_tilt_degs", r))
          /\ issued' = Append(issued, angle)
          /\ tpc' = IF r = "ok" THEN "TiltCommanded" ELSE "Failed"
          /\ printed' = IF r = "ok" THEN printed ELSE printed \cup {"error"}
    /\ UNCHANGED <<argv, angle, ctx, dev, exit_code>>
    /\ UNCHANGED <<maskVars, serverVars>>

\* Line 57: time.sleep(2).
TiltSettle ==
    /\ tpc = "TiltCommanded"
    /\ tlog' = Append(tlog, Call("sleep", "ok"))
    /\ tpc' = "Settled"
    /\ UNCHANGED <<argv, angle, ctx, dev, issued, printed, exit_code>>
    /\ UNCHANGED <<maskVars, serverVars>>

\* Lines 60-65 (and 73-75): freenect.get_tilt_state(dev); the result is
\* reported when it is truthy and passed over when it is not.
TiltReadBack ==
    /\ tpc = "Settled"
    /\ \E r \in Outcomes :
          /\ tlog' = Append(tlog, Call("get_tilt_state", r))
          /\ tpc' = IF r = "raise" THEN "Failed" ELSE "ReadBack"
          /\ printed' = printed \cup
                (CASE r = "ok" -> {"tilt set"} [] r = "none" -> {} [] OTHER -> {"error"})
    /\ UNCHANGED <<argv, angle, ctx, dev, issued, exit_code>>
    /\ UNCHANGED <<maskVars, serverVars>>

\* Lines 68-71 (and 73-75): the two calls of the clean-up, one per step.
TiltRelease ==
    /\ tpc \in {"ReadBack", "Releasing"}
    /\ LET op == ReleaseOrder[IF tpc = "ReadBack" THEN 1 ELSE 2]
       IN  \E r \in {"ok", "raise"} :
              /\ tlog' = Append(tlog, Call(op, r))
              /\ dev' = IF r = "ok" /\ op = "close_device" THEN "released" ELSE dev
              /\ ctx' = IF r = "ok" /\ op = "shutdown" THEN "released" ELSE ctx
              /\ tpc' = IF r = "raise" THEN "Failed"
                        ELSE IF tpc = "ReadBack" THEN "Releasing" ELSE "Closed"
              /\ printed' = IF r = "ok" THEN printed ELSE printed \cup {"error"}
    /\ UNCHANGED <<argv, angle, issued, exit_code>>
    /\ UNCHANGED <<maskVars, serverVars>>

\* Lines 71, 75, 115-130: set_kinect_tilt returns and main exits.
TiltExit ==
    /\ tpc \in {"Closed", "Failed"} /\ exit_code = NoExit
    /\ exit_code' = IF tpc = "Closed" THEN 0 ELSE 1
    /\ printed' = printed \cup {IF tpc = "Closed" THEN "done" ELSE "failed to set tilt"}
    /\ UNCHANGED <<argv, angle, tpc, ctx, dev, issued, tlog>>
    /\ UNCHANGED <<maskVars, serverVars>>

InitTilt ==
    /\ argv \in TiltArgs
    /\ TiltStart(argv)
    /\ grid_width = JInt(MaxGrid)
    /\ grid_height = JInt(1)
    /\ depth_threshold = 403
    /\ ServerStart

NextTilt ==
    \/ TiltMain
    \/ TiltEnter
    \/ TiltInitContext
    \/ TiltOpenDevice
    \/ TiltCommand
    \/ TiltSettle
    \/ TiltReadBack
    \/ TiltRelease
    \/ TiltExit

SpecTilt == InitTilt /\ [][NextTilt]_vars

(***************************************************************************)
(* The reducer alone: any configuration, any sensor read.                  *)
(***************************************************************************)
InitMask ==
    /\ grid_width \in GridValues
    /\ grid_height \in GridValues
    /\ depth_threshold \in Thresholds
    /\ depth = NoRead
    /\ mask = <<>>
    /\ raised = FALSE
    /\ polls = 0
    /\ clients = {}
    /\ hpc = [s \in Sessions |-> "new"]
    /\ chan = [s \in Sessions |-> "open"]
    /\ pcLoop = "sleep"
    /\ frame_count = 0
    /\ message = NoMessage
    /\ targets = {}
    /\ pending = {}
    /\ failed = {}
    /\ TiltStart(NoArg)

Reduce ==
    /\ polls = 0
    /\ polls' = 1
    /\ \E read \in SensorReads :
          LET r == get_shadow_mask(read, grid_width, grid_height, depth_threshold)
          IN  /\ depth' = read
              /\ mask' = r.mask
              /\ raised' = r.raised
    /\ UNCHANGED <<configVars, serverVars>>
    /\ UNCHANGED tiltVars

NextMask == Reduce

SpecMask == InitMask /\ [][NextMask]_vars

(***************************************************************************)
(* handle_client                                                           *)
(***************************************************************************)
\* Lines 124-128 on configuration c: json.loads, then the `threshold` member.
\* out is "ok", "logged" (JSONDecodeError, caught at line 135) or "raise" (an
\* exception line 135 does not catch: TypeError, ValueError, KeyError).
\* A float stands for n + 0.5, which int() truncates to n.
AfterThreshold(m, c) ==
    IF m.shape = "badjson" THEN [c EXCEPT !.out = "logged"]
    ELSE IF m.shape = "scalar" THEN [c EXCEPT !.out = "raise"]
    ELSE IF m.shape = "text" \/ m.threshold = Absent THEN c
    ELSE IF m.threshold.k \in {"int", "float"} THEN [c EXCEPT !.t = m.threshold.n]
    ELSE [c EXCEPT !.out = "raise"]

\* A plausible slip: the two members exchanged.
AfterGridSizeSwapped(m, c) ==
    IF c.out # "ok" THEN c
    ELSE IF m.shape = "text" \/ m.grid_size.k = "absent" THEN c
    ELSE IF m.grid_size.k # "obj" THEN [c EXCEPT !.out = "raise"]
    ELSE IF m.grid_size.width = Absent THEN [c EXCEPT !.out = "raise"]
    ELSE IF m.grid_size.height = Absent
         THEN [c EXCEPT !.w = m.grid_size.width, !.out = "raise"]
    ELSE [c EXCEPT !.w = m.grid_size.height, !.h = m.grid_size.width]

\* Lines 130-133: the `grid_size` member; width is assigned before height is
\* looked up.
AfterGridSize(m, c) ==
    IF c.out # "ok" THEN c
    ELSE IF m.shape = "text" \/ m.grid_size.k = "absent" THEN c
    ELSE IF m.grid_size.k # "obj" THEN [c EXCEPT !.out = "raise"]
    ELSE IF m.grid_size.width = Absent THEN [c EXCEPT !.out = "raise"]
    ELSE IF m.grid_size.height = Absent
         THEN [c EXCEPT !.w = m.grid_size.width, !.out = "raise"]
    ELSE [c EXCEPT !.w = m.grid_size.width, !.h = m.grid_size.height]

\* The body of the message loop (lines 123-136) on one message.
handle_message(m, w, h, t) ==
    AfterGridSize(m, AfterThreshold(m, [w |-> w, h |-> h, t |-> t, out |-> "ok"]))

\* The finally block (lines 140-141) on each way out of the handler:
\* "eof" (the stream ended), "closed" (ConnectionClosed), "error" (any other
\* exception, which passes through line 138).
\* A plausible slip: the removal after the try statement, not in finally.
RemoveAfterTry(s, how) == IF how = "error" THEN clients ELSE clients \ {s}
\* A plausible slip: the removal at the end of the stream only, not after
\* ConnectionClosed.
RemoveAtEof(s, how) == IF how = "eof" THEN clients \ {s} ELSE clients
RemoveOnExit(s, how) == clients \ {s}

\* Lines 116-118: the handler starts. Sessions are numbered in the order the
\* server accepts them.
Connect(s) ==
    /\ hpc[s] = "new"
    /\ \A r \in Sessions : r < s => hpc[r] # "new"
    /\ pcLoop # "raised"
    /\ clients' = clients \cup {s}
    /\ hpc' = [hpc EXCEPT ![s] = "open"]
    /\ UNCHANGED <<configVars, loopVars, chan>>
    /\ UNCHANGED tiltVars

\* Lines 121-136: one message of session s is processed. An exception that
\* gets out ends the handler through finally; the library then closes the
\* connection.
Receive(s, m) ==
    /\ hpc[s] = "open" /\ chan[s] = "open"
    /\ pcLoop # "raised"
    /\ UNCHANGED loopVars
    /\ LET r == handle_message(m, grid_width, grid_height, depth_threshold)
       IN  /\ grid_width' = r.w
           /\ grid_height' = r.h
           /\ depth_threshold' = r.t
           /\ IF r.out = "raise"
              THEN /\ clients' = RemoveOnExit(s, "error")
                   /\ hpc' = [hpc EXCEPT ![s] = "ended"]
                   /\ chan' = [chan EXCEPT ![s] = "closed"]
              ELSE UNCHANGED <<clients, hpc, chan>>
    /\ UNCHANGED tiltVars

\* The transport: the connection of s closes, gracefully or abruptly.
Close(s) ==
    /\ hpc[s] = "open" /\ chan[s] = "open"
    /\ chan' = [chan EXCEPT ![s] = "closed"]
    /\ UNCHANGED <<configVars, loopVars, clients, hpc>>
    /\ UNCHANGED tiltVars

\* Lines 121, 138-142: on a closed connection the async for ends (a graceful
\* close) or raises ConnectionClosed (an abrupt one), and finally removes the
\* session.
HandlerEnd(s) ==
    /\ hpc[s] = "open" /\ chan[s] = "closed"
    /\ \E how \in {"eof", "closed"} : clients' = RemoveOnExit(s, how)
    /\ hpc' = [hpc EXCEPT ![s] = "ended"]
    /\ UNCHANGED <<configVars, loopVars, chan>>
    /\ UNCHANGED tiltVars

(***************************************************************************)
(* broadcast_shadow_data                                                   *)
(***************************************************************************)
\* A plausible slip: the rows that hold a True cell are counted.
ShadowRows(mk) ==
    SumSeq([gy \in 1..Len(mk) |->
              IF \E gx \in 1..Len(mk[gy]) : mk[gy][gx] THEN 1 ELSE 0])

\* Line 157: sum(sum(row) for row in mask).
ShadowCount(mk) ==
    SumSeq([gy \in 1..Len(mk) |->
              SumSeq([gx \in 1..Len(mk[gy]) |-> IF mk[gy][gx] THEN 1 ELSE 0])])

\* Lines 160-170.
MakeMessage(mk) ==
    [type |-> "shadow_mask", data |-> mk,
     metadata |-> [grid_width |-> grid_width, grid_height |-> grid_height,
                   threshold |-> depth_threshold, shadow_cells |-> ShadowCount(mk),
                   frame |-> frame_count]]

\* Line 152: if self.clients.
\* A plausible slip: the test left out.
HasClientsUnchecked == TRUE
HasClients == clients # {}

\* The state of the loop while a send of the gather has raised: with
\* return_exceptions=True the exception is a result and the gather goes on.
\* A plausible slip: return_exceptions left out, the first failure is raised.
GatherRaisesFailure == "raised"
GatherAfterFailure == "gather"

\* Lines 151-152, 184: a cycle that finds no connection only sleeps.
CycleIdle ==
    /\ pcLoop = "sleep"
    /\ ~HasClients
    /\ UNCHANGED vars

\* Lines 151-175: a cycle that finds a connection reads the sensor, builds
\* the message and starts one send per connection. When get_shadow_mask
\* raises, the exception leaves broadcast_shadow_data and start() (lines
\* 206-207), and the server closes every connection.
CycleBroadcast ==
    /\ pcLoop = "sleep"
    /\ HasClients
    /\ frame_count < MaxFrames
    /\ \E read \in SceneReads :
          LET r == get_shadow_mask(read, grid_width, grid_height, depth_threshold)
          IN  /\ depth' = read
              /\ polls' = polls + 1
              /\ mask' = r.mask
              /\ raised' = r.raised
              /\ IF r.raised
                 THEN /\ pcLoop' = "raised"
                      /\ chan' = [s \in Sessions |->
                                    IF hpc[s] = "open" THEN "closed" ELSE chan[s]]
                      /\ UNCHANGED <<message, targets, pending, failed>>
                 ELSE /\ pcLoop' = "gather"
                      /\ message' = MakeMessage(r.mask)
                      /\ targets' = clients
                      /\ pending' = clients
                      /\ failed' = {}
                      /\ chan' = chan
    /\ UNCHANGED <<configVars, clients, hpc, frame_count>>
    /\ UNCHANGED tiltVars

\* Lines 174-177: the send to s completes.
DeliverOk(s) ==
    /\ pcLoop = "gather" /\ s \in pending
    /\ chan[s] = "open"
    /\ pending' = pending \ {s}
    /\ UNCHANGED <<configVars, sessionVars, depth, mask, raised, polls, pcLoop,
                   frame_count, message, targets, failed>>
    /\ UNCHANGED tiltVars

\* A plausible slip: the loop itself drops a connection whose send raised.
DeliverFailRemoves(s) ==
    /\ pcLoop = "gather" /\ s \in pending
    /\ pending' = pending \ {s}
    /\ failed' = failed \cup {s}
    /\ chan' = [chan EXCEPT ![s] = "closed"]
    /\ pcLoop' = GatherAfterFailure
    /\ clients' = clients \ {s}
    /\ UNCHANGED <<configVars, hpc, depth, mask, raised, polls,
                   frame_count, message, targets>>
    /\ UNCHANGED tiltVars

\* Lines 174-177: the send to s raises: the connection is closed, or the
\* write fails and the library closes the connection.
DeliverFail(s) ==
    /\ pcLoop = "gather" /\ s \in pending
    /\ pending' = pending \ {s}
    /\ failed' = failed \cup {s}
    /\ chan' = [chan EXCEPT ![s] = "closed"]
    /\ pcLoop' = GatherAfterFailure
    /\ UNCHANGED <<configVars, clients, hpc, depth, mask, raised, polls,
                   frame_count, message, targets>>
    /\ UNCHANGED tiltVars

\* Lines 174-184: every send has settled; the frame is counted and the loop
\* sleeps. The locals of the cycle are dead from here on.
FanoutDone ==
    /\ pcLoop = "gather" /\ pending = {}
    /\ frame_count' = frame_count + 1
    /\ pcLoop' = "sleep"
    /\ message' = NoMessage
    /\ targets' = {}
    /\ failed' = {}
    /\ depth' = NoRead
    /\ mask' = <<>>
    /\ UNCHANGED <<configVars, sessionVars, raised, polls, pending>>
    /\ UNCHANGED tiltVars

\* The diagnostics the server prints when it catches an error: line 136 for
\* JSONDecodeError; line 142, in finally, after ConnectionClosed (line 139
\* itself is `pass`); line 105 for a failed sensor read; none for the
\* exceptions gather returns, whose result is not looked at (lines 173-177).
diagnostics(caught) ==
    CASE caught = "JSONDecodeError" -> {"Invalid JSON from client"}
      [] caught = "ConnectionClosed" -> {"Client disconnected"}
      [] caught = "sensor read" -> {"Error getting depth data"}
      [] caught = "send" -> {}

(***************************************************************************)
(* The server: the state after __init__ (started with --grid MaxGrid 1     *)
(* --threshold 403), the handlers and the broadcast loop on one event loop.*)
(***************************************************************************)
Init ==
    /\ grid_width = JInt(MaxGrid)
    /\ grid_height = JInt(1)
    /\ depth_threshold = 403
    /\ clients = {}
    /\ depth = NoRead
    /\ mask = <<>>
    /\ raised = FALSE
    /\ polls = 0
    /\ hpc = [s \in Sessions |-> "new"]
    /\ chan = [s \in Sessions |-> "open"]
    /\ pcLoop = "sleep"
    /\ frame_count = 0
    /\ message = NoMessage
    /\ targets = {}
    /\ pending = {}
    /\ failed = {}
    /\ TiltStart(NoArg)

Next ==
    \/ \E s \in Sessions : Connect(s)
    \/ \E s \in Sessions : \E m \in ViewerMessages : Receive(s, m)
    \/ \E s \in Sessions : Close(s)
    \/ \E s \in Sessions : HandlerEnd(s)
    \/ CycleIdle
    \/ CycleBroadcast
    \/ \E s \in Sessions : DeliverOk(s)
    \/ \E s \in Sessions : DeliverFail(s)
    \/ FanoutDone

Spec == Init /\ [][Next]_vars

\* The same server with viewers that only watch.
NextViewers ==
    \/ \E s \in Sessions : Connect(s)
    \/ \E s \in Sessions : \E m \in PlainMessages : Receive(s, m)
    \/ \E s \in Sessions : Close(s)
    \/ \E s \in Sessions : HandlerEnd(s)
    \/ CycleIdle
    \/ CycleBroadcast
    \/ \E s \in Sessions : DeliverOk(s)
    \/ \E s \in Sessions : DeliverFail(s)
    \/ FanoutDone

SpecViewers == Init /\ [][NextViewers]_vars

\* The same server with viewers that keep to the wire format.
NextUpdates ==
    \/ \E s \in Sessions : Connect(s)
    \/ \E s \in Sessions : \E m \in UpdateMessages : Receive(s, m)
    \/ \E s \in Sessions : Close(s)
    \/ \E s \in Sessions : HandlerEnd(s)
    \/ CycleIdle
    \/ CycleBroadcast
    \/ \E s \in Sessions : DeliverOk(s)
    \/ \E s \in Sessions : DeliverFail(s)
    \/ FanoutDone

SpecUpdates == Init /\ [][NextUpdates]_vars

\* The event loop runs a handler whose connection has closed.
Fairness == \A s \in Sessions : WF_vars(HandlerEnd(s))
SpecViewersFair == SpecViewers /\ Fairness

(***************************************************************************)
(* Properties of the sessions and the broadcast loop.                      *)
(***************************************************************************)
Started == {s \in Sessions : hpc[s] # "new"}
Ended == {s \in Sessions : hpc[s] = "ended"}

\* C1: after N sessions have connected and M of them have disconnected (by
\* a graceful close, an abrupt close or an error in the handler), the
\* Connection Set holds exactly N - M sessions: those whose handler has
\* started and not yet ended.
C1_ConnectionSetSize ==
    /\ clients = Started \ Ended
    /\ Cardinality(clients) = Cardinality(Started) - Cardinality(Ended)

\* C1 witness: two sessions have connected and one of them has disconnected
\* while a broadcast is in flight.
C1_Witness ==
    /\ Cardinality(Started) = 2 /\ Cardinality(Ended) = 1
    /\ Cardinality(clients) = 1
    /\ pcLoop = "gather"

\* Malformed messages: text that is not JSON, a parsed
\* value that is no record, a threshold that is no integer, a grid_size that
\* is no record with both width and height.
Malformed(m) ==
    \/ m.shape \in {"badjson", "scalar", "text"}
    \/ m.threshold # Absent /\ ~IsInt(m.threshold)
    \/ m.grid_size.k = "str"
    \/ m.grid_size.k = "obj" /\ (m.grid_size.width = Absent \/ m.grid_size.height = Absent)

\* C2: a malformed viewer message leaves grid_width, grid_height and
\* depth_threshold unchanged and the session in the Connection Set, with its
\* handler still in the message loop.
C2_MalformedIgnored ==
    [][\A s \in Sessions : \A m \in ViewerMessages :
          (Malformed(m) /\ Receive(s, m)) =>
              /\ UNCHANGED configVars
              /\ s \in clients'
              /\ hpc'[s] = "open"]_vars

\* C3: no sequence of viewer messages, connects, disconnects, delivery
\* failures or sensor read failures makes broadcast_shadow_data raise.
C3_LoopNeverRaises == pcLoop # "raised"

AllFalse(mk, w, h) ==
    /\ Len(mk) = h
    /\ \A gy \in 1..Len(mk) :
          /\ Len(mk[gy]) = w
          /\ \A gx \in 1..Len(mk[gy]) : mk[gy][gx] = FALSE

\* C4: when the sensor read fails, get_shadow_mask returns grid_height rows
\* of grid_width cells, all False, for the dimensions configured at that
\* moment, and does not raise.
C4_AllFalseOnReadFailure ==
    [][(polls' # polls /\ ~depth'.ok) =>
          /\ ~raised'
          /\ IsInt(grid_width) /\ IsInt(grid_height)
          /\ AllFalse(mask', grid_width.n, grid_height.n)]_vars

\* C5: in a fan-out a failed delivery takes only its own send out of the
\* gather, which ends only when every send has settled; the loop then counts
\* the frame and sleeps until its next cycle.
C5_FailureIsolated ==
    [][/\ (failed' # failed /\ failed' # {}) =>
              /\ pending \ pending' = failed' \ failed
              /\ targets' = targets
       /\ (pcLoop = "gather" /\ pcLoop' # "gather") =>
              /\ pending = {}
              /\ pcLoop' = "sleep"
              /\ frame_count' = frame_count + 1]_vars

\* C5 witness: a fan-out to two connections has settled; one delivery failed
\* and the other did not.
C5_Witness ==
    /\ pcLoop = "gather" /\ pending = {}
    /\ failed # {} /\ targets \ failed # {}

\* C6: a viewer whose delivery failed is eventually removed from the
\* Connection Set for good; a failed delivery removes nobody else; a fan-out
\* targets only members of the Connection Set, so none after the removal.
C6_FailedViewerDeregistered ==
    /\ \A s \in Sessions : (s \in failed) ~> [](s \notin clients)
    /\ [][/\ failed' # failed => clients' = clients
          /\ targets' # targets => targets' \subseteq clients']_vars

\* C6 witness: a viewer's delivery has failed and it has been removed, while
\* another target of the same fan-out is still registered.
C6_Witness ==
    \E s, t \in Sessions :
        /\ s \in failed /\ s \notin clients /\ hpc[s] = "ended"
        /\ t # s /\ t \in targets /\ t \in clients

\* C7: a cycle that finds the Connection Set empty reads no sensor, builds
\* no message, starts no send and counts no frame; the sensor is read only
\* in a cycle that found the set non-empty.
C7_NoPollWithoutClients ==
    [][/\ polls' # polls => clients # {}
       /\ (pcLoop = "sleep" /\ clients = {}) => UNCHANGED loopVars]_vars

\* C7 witness: the loop has broadcast a frame, the last viewer has gone and
\* the loop is between cycles.
C7_Witness ==
    /\ pcLoop = "sleep" /\ clients = {}
    /\ frame_count >= 1 /\ Ended # {}

\* The update messages of the wire format: a record whose threshold, if any,
\* is an integer and whose grid_size, if any, has an integer width and height.
WellFormedUpdate(m) ==
    /\ m.shape = "record"
    /\ m.threshold = Absent \/ IsInt(m.threshold)
    /\ \/ m.grid_size = NoGridSize
       \/ m.grid_size.k = "obj" /\ IsInt(m.grid_size.width) /\ IsInt(m.grid_size.height)

\* Processing an update assigns what it carries, and nothing else changes
\* the configuration; the message a cycle builds reports the configuration
\* of that moment.
Assigned(m) ==
    /\ m.threshold # Absent => depth_threshold' = m.threshold.n
    /\ m.grid_size # NoGridSize =>
          /\ grid_width' = m.grid_size.width
          /\ grid_height' = m.grid_size.height

UpdateReaches ==
    /\ \A m \in UpdateMessages :
          (WellFormedUpdate(m) /\ ~Assigned(m)) =>
              \A s \in Sessions : ~Receive(s, m)
    /\ \/ UNCHANGED configVars
       \/ \E s \in Sessions : \E m \in UpdateMessages : Receive(s, m)
    /\ (pcLoop = "sleep" /\ pcLoop' = "gather") =>
          /\ message'.metadata.grid_width = grid_width
          /\ message'.metadata.grid_height = grid_height
          /\ message'.metadata.threshold = depth_threshold

HasShape(data, w, h) ==
    Len(data) = h /\ \A gy \in 1..Len(data) : Len(data[gy]) = w

\* C8 as stated: after an update {width: w, height: h} and/or threshold t, the
\* next broadcast message reports w, h and t and carries h rows of w cells.
C8_UpdateReported ==
    [][/\ UpdateReaches
       /\ (pcLoop = "sleep" /\ pcLoop' = "gather"
              /\ IsInt(grid_width) /\ IsInt(grid_height)) =>
              HasShape(message'.data, grid_width.n, grid_height.n)]_vars

\* C8 as amended: the same for integers w >= 0 and h >= 0.
C8_UpdateReportedNonNegative ==
    [][/\ UpdateReaches
       /\ (pcLoop = "sleep" /\ pcLoop' = "gather"
              /\ IsInt(grid_width) /\ IsInt(grid_height)
              /\ grid_width.n >= 0 /\ grid_height.n >= 0) =>
              HasShape(message'.data, grid_width.n, grid_height.n)]_vars

\* C8 witness: a broadcast message reports the grid and the threshold of an
\* update, none of them a value the server was started with.
C8_Witness ==
    /\ pcLoop = "gather"
    /\ message.metadata.grid_width = JInt(1)
    /\ message.metadata.grid_height = JInt(MaxGrid)
    /\ message.metadata.threshold = 402
    /\ HasShape(message.data, 1, MaxGrid)

\* C17: a session leaves the Connection Set only when its handler ends, and
\* then it is in the set and it alone is removed, on every way out; once
\* its handler has ended a session is never in the set again.
C17_RemovedExactlyOnce ==
    [][\A s \in Sessions :
          /\ (hpc[s] = "open" /\ hpc'[s] = "ended") =>
                (s \in clients /\ clients' = clients \ {s})
          /\ (s \in clients /\ s \notin clients') =>
                (hpc[s] = "open" /\ hpc'[s] = "ended")
          /\ hpc[s] = "ended" => (hpc'[s] = "ended" /\ s \notin clients')]_vars

\* C17 witness: every session has connected and ended, after a broadcast,
\* and the Connection Set is empty again.
C17_Witness ==
    /\ Ended = Sessions
    /\ clients = {}
    /\ frame_count >= 1

\* The number of True cells of a grid.
TrueCells(data) ==
    Cardinality({p \in UNION {{<<gy, gx>> : gx \in 1..Len(data[gy])} : gy \in 1..Len(data)} :
                    data[p[1]][p[2]]})

\* The message in flight was computed from the sensor read of its cycle with
\* the threshold and the grid it reports, and counts its True cells.
MessageAgrees ==
    pcLoop = "gather" =>
        /\ message.type = "shadow_mask"
        /\ message.data =
              get_shadow_mask(depth, message.metadata.grid_width,
                              message.metadata.grid_height,
                              message.metadata.threshold).mask
        /\ message.metadata.shadow_cells = TrueCells(message.data)

\* The message stays the same for every send of a fan-out.
OneMessagePerFanout ==
    (pcLoop = "gather" /\ pcLoop' = "gather") => message' = message

\* C18 as stated: every broadcast message reports the number of rows and the
\* row length of its data, the threshold its data was computed with and the
\* number of its True cells, and is the same for every connection of the
\* fan-out.
C18_SelfConsistent ==
    /\ [](/\ MessageAgrees
          /\ pcLoop = "gather" =>
                /\ IsInt(message.metadata.grid_width)
                /\ IsInt(message.metadata.grid_height)
                /\ HasShape(message.data, message.metadata.grid_width.n,
                            message.metadata.grid_height.n))
    /\ [][OneMessagePerFanout]_vars

\* C18 as amended: the same, the shape for integer dimensions >= 0.
C18_SelfConsistentNonNegative ==
    /\ [](/\ MessageAgrees
          /\ (/\ pcLoop = "gather"
              /\ IsInt(message.metadata.grid_width)
              /\ IsInt(message.metadata.grid_height)
              /\ message.metadata.grid_width.n >= 0
              /\ message.metadata.grid_height.n >= 0) =>
                HasShape(message.data, message.metadata.grid_width.n,
                         message.metadata.grid_height.n))
    /\ [][OneMessagePerFanout]_vars

\* C18 witness: a fan-out to two connections, one send settled and one not,
\* while a viewer's update has already changed the threshold and the grid
\* that the message in flight reports; the message holds two True cells.
C18_Witness ==
    /\ pcLoop = "gather"
    /\ Cardinality(targets) = 2 /\ Cardinality(pending) = 1
    /\ message.metadata.threshold # depth_threshold
    /\ message.metadata.grid_width # grid_width
    /\ message.metadata.shadow_cells = 2

\* C20: processing a message changes only what its recognized fields name:
\* only `threshold` leaves the grid alone, only `grid_size` leaves the
\* threshold alone, a record without either changes no configuration, and
\* no message changes the Connection Set or the frame counter.
C20_FrameOfMessage ==
    [][\A s \in Sessions : \A m \in ViewerMessages :
          Receive(s, m) =>
              /\ (m.shape = "record" /\ m.grid_size = NoGridSize) =>
                    UNCHANGED <<grid_width, grid_height>>
              /\ (m.shape = "record" /\ m.threshold = Absent) =>
                    UNCHANGED depth_threshold
              /\ clients' = clients
              /\ frame_count' = frame_count]_vars

\* C15: every error the server catches produces a diagnostic: a send of
\* the fan-out that raises, a connection found closed by its handler, a
\* message that is not JSON, a sensor read that fails.
C15_NoSilentError ==
    [][/\ \A s \in Sessions : DeliverFail(s) => diagnostics("send") # {}
       /\ \A s \in Sessions : HandlerEnd(s) => diagnostics("ConnectionClosed") # {}
       /\ \A s \in Sessions : \A m \in ViewerMessages :
             (m.shape = "badjson" /\ Receive(s, m)) => diagnostics("JSONDecodeError") # {}
       /\ (polls' # polls /\ ~depth'.ok /\ ~raised') => diagnostics("sensor read") # {}]_vars

(***************************************************************************)
(* Properties of the tilt tool (checked under SpecTilt).                   *)
(***************************************************************************)
Calls == {tlog[i] : i \in 1..Len(tlog)}
Exited == exit_code # NoExit

\* C12: no run of the tilt tool ends with the context or the device held.
C12_ReleasedAtExit ==
    Exited => (ctx # "held" /\ dev # "held")

\* C13: every angle given to set_tilt_degs is min(30, max(-30, requested)),
\* so within [-30, 30] and the requested one when that is in range; a request
\* out of range is warned about and goes on to the device, it is not rejected.
C13_IssuedAngleClamped ==
    /\ \A i \in 1..Len(issued) :
          /\ IsInt(argv)
          /\ issued[i] = (IF argv.n > 30 THEN 30 ELSE IF argv.n < -30 THEN -30 ELSE argv.n)
          /\ -30 <= issued[i] /\ issued[i] <= 30
    /\ (IsInt(argv) /\ tpc # "main") =>
          ("warning" \in printed <=> (argv.n > 30 \/ argv.n < -30))
    /\ (IsInt(argv) /\ exit_code = 1) => tpc = "Failed"

\* C13 witness: a request above the limit has been warned about, issued as
\* 30 and the run has succeeded.
C13_Witness ==
    /\ IsInt(argv) /\ argv.n > 30
    /\ issued = <<30>>
    /\ "warning" \in printed
    /\ exit_code = 0

\* C14: the tool exits 0 only when every step succeeded (context acquired,
\* device opened, tilt commanded, state read back, device and context
\* released), and exits 1 with a diagnostic when the argument is missing or
\* no integer or a step failed.
C14_ExitCode ==
    /\ exit_code = 0 =>
          {Call(op, "ok") : op \in {"init", "open_device", "set_tilt_degs",
                                    "get_tilt_state", "close_device", "shutdown"}}
              \subseteq Calls
    /\ (Exited /\ (~IsInt(argv) \/ \E c \in Calls : c[2] # "ok")) =>
          (exit_code = 1 /\ printed # {})

\* The named state of a run.
TiltState(pc) ==
    CASE pc \in {"main", "call", "Uninitialized"} -> "Uninitialized"
      [] pc \in {"Settled", "ReadBack", "Releasing"} -> "Settled"
      [] OTHER -> pc
TiltOrder == <<"Uninitialized", "ContextOpen", "DeviceOpen", "TiltCommanded", "Settled", "Closed">>
DeviceCalls == {"open_device", "set_tilt_degs", "get_tilt_state", "close_device"}
CallAt(i, op, r) == tlog[i] = Call(op, r)

\* C19: a run moves through Uninitialized, ContextOpen, DeviceOpen,
\* TiltCommanded, Settled, Closed in this order (or to Failed); the tilt is
\* commanded only with context and device open, the state is read only after
\* the command and the wait, the device is closed before the context is shut
\* down, and no device call follows a release or a failed acquisition.
C19_StepsInOrder ==
    /\ [][TiltState(tpc') # TiltState(tpc) =>
             \/ TiltState(tpc') = "Failed" /\ TiltState(tpc) # "Closed"
             \/ \E k \in 1..(Len(TiltOrder) - 1) :
                   TiltState(tpc) = TiltOrder[k] /\ TiltState(tpc') = TiltOrder[k + 1]]_vars
    /\ [](\A i \in 1..Len(tlog) :
             /\ tlog[i][1] = "set_tilt_degs" =>
                   /\ \E j \in 1..(i - 1) : CallAt(j, "init", "ok")
                   /\ \E j \in 1..(i - 1) : CallAt(j, "open_device", "ok")
                   /\ \A j \in 1..(i - 1) : tlog[j][1] \notin {"close_device", "shutdown"}
             /\ tlog[i][1] = "get_tilt_state" =>
                   \E j \in 1..(i - 1) : \E k \in (j + 1)..(i - 1) :
                       CallAt(j, "set_tilt_degs", "ok") /\ CallAt(k, "sleep", "ok")
             /\ (tlog[i][1] = "shutdown" /\ \E j \in 1..(i - 1) : CallAt(j, "open_device", "ok")) =>
                   \E j \in 1..(i - 1) : CallAt(j, "close_device", "ok")
             /\ (\/ tlog[i] \in {Call("close_device", "ok"), Call("shutdown", "ok")}
                 \/ (tlog[i][1] \in {"init", "open_device"} /\ tlog[i][2] # "ok")) =>
                   \A j \in (i + 1)..Len(tlog) : tlog[j][1] \notin DeviceCalls)

\* C19 witness: a run that has gone through all six states, seven calls made,
\* and exited.
C19_Witness ==
    /\ tpc = "Closed" /\ Len(tlog) = 7
    /\ ctx = "released" /\ dev = "released"
    /\ Exited

(***************************************************************************)
(* Properties of the reducer (checked under SpecMask).                     *)
(***************************************************************************)
RECURSIVE SetSum(_, _)
SetSum(S, f) ==
    IF S = {} THEN 0
    ELSE LET e == CHOOSE x \in S : TRUE IN f[e] + SetSum(S \ {e}, f)

\* The samples <<row, column>> (1-based) of the source region of the 0-based
\* cell (gx, gy): rows [floor(gy*H/h), floor((gy+1)*H/h)), columns alike.
SourceRegion(d, gx, gy, w, h) ==
    LET H == Len(d)
        W == Len(d[1])
    IN  {p \in (1..H) \X (1..W) :
            /\ (gy * H) \div h <= p[1] - 1 /\ p[1] - 1 < ((gy + 1) * H) \div h
            /\ (gx * W) \div w <= p[2] - 1 /\ p[2] - 1 < ((gx + 1) * W) \div w}

RegionTotal(d, R) == SetSum(R, [p \in R |-> d[p[1]][p[2]]])

\* 400 < mean < thr for the samples R of frame d (no mean when R is empty).
MeanStrictlyInside(d, R, thr) ==
    /\ R # {}
    /\ 400 * Cardinality(R) < RegionTotal(d, R)
    /\ RegionTotal(d, R) < thr * Cardinality(R)

PositiveGrid == IsInt(grid_width) /\ grid_width.n >= 1 /\ IsInt(grid_height) /\ grid_height.n >= 1

\* C9: on a successful sensor read, for every frame H x W and every grid
\* (w, h) with w, h >= 1 (also w > W or h > H), get_shadow_mask returns
\* exactly h rows of exactly w booleans each, and does not raise.
C9_ShapeOnSuccess ==
    (depth.ok /\ PositiveGrid) =>
        /\ ~raised
        /\ Len(mask) = grid_height.n
        /\ \A gy \in 1..Len(mask) :
              /\ Len(mask[gy]) = grid_width.n
              /\ \A gx \in 1..Len(mask[gy]) : mask[gy][gx] \in BOOLEAN

\* C9 witness: a successful read reduced to a grid that has more columns
\* than the frame has samples in a row, and is not square.
C9_Witness ==
    /\ depth.ok /\ PositiveGrid
    /\ grid_width.n > Len(depth.frame[1])
    /\ grid_width.n # grid_height.n
    /\ Len(mask) = grid_height.n

\* C10: cell (gx, gy) of the returned grid is True iff the mean of the depth
\* samples of its source region is strictly greater than 400 and strictly
\* less than depth_threshold (a region without samples has no such mean).
C10_CellIffMeanInside ==
    (depth.ok /\ ~raised) =>
        \A gy \in 1..Len(mask) : \A gx \in 1..Len(mask[gy]) :
            mask[gy][gx] <=>
                MeanStrictlyInside(depth.frame,
                    SourceRegion(depth.frame, gx - 1, gy - 1, grid_width.n, grid_height.n),
                    depth_threshold)

\* C10 witness: one reduction with a True cell and a False cell whose
\* region's mean is exactly 400.
C10_Witness ==
    /\ depth.ok /\ ~raised /\ Len(mask) >= 1
    /\ \E gx1, gx2 \in 1..Len(mask[1]) :
          LET R == SourceRegion(depth.frame, gx2 - 1, 0, grid_width.n, grid_height.n)
          IN  /\ mask[1][gx1]
              /\ ~mask[1][gx2]
              /\ R # {}
              /\ RegionTotal(depth.frame, R) = 400 * Cardinality(R)

\* C11: when the grid has the frame's width and height, the returned grid
\* is the thresholding of the raw frame, sample by sample: cell (gx, gy) is
\* True iff 400 < depth[gy][gx] < depth_threshold.
C11_IdentityThresholding ==
    (/\ depth.ok /\ IsInt(grid_width) /\ IsInt(grid_height)
     /\ grid_height.n = Len(depth.frame)
     /\ grid_width.n = Len(depth.frame[1])) =>
        /\ ~raised
        /\ Len(mask) = Len(depth.frame)
        /\ \A gy \in 1..Len(mask) :
              /\ Len(mask[gy]) = Len(depth.frame[gy])
              /\ \A gx \in 1..Len(mask[gy]) :
                    mask[gy][gx] <=>
                        (400 < depth.frame[gy][gx] /\ depth.frame[gy][gx] < depth_threshold)

\* C11 witness: a frame of MaxDepth rows and columns reduced to a grid of
\* its own size, with a True cell in the last row and a False cell.
C11_Witness ==
    /\ depth.ok /\ ~raised
    /\ Len(depth.frame) = MaxDepth /\ Len(depth.frame[1]) = MaxDepth
    /\ grid_height = JInt(MaxDepth) /\ grid_width = JInt(MaxDepth)
    /\ Len(mask) = MaxDepth
    /\ \E gx \in 1..MaxDepth : mask[MaxDepth][gx]
    /\ \E gy, gx \in 1..MaxDepth : ~mask[gy][gx]

\* C16: for a grid finer than the frame the reducer still computes every
\* cell from at least one depth sample (a minimum region size of 1): no cell
\* is the outcome of an average over no samples.
C16_MinimumRegion ==
    (depth.ok /\ PositiveGrid) =>
        /\ ~raised
        /\ \A gy \in 1..Len(mask) : \A gx \in 1..Len(mask[gy]) :
              region_size(depth.frame, gx - 1, gy - 1, grid_width.n, grid_height.n) >= 1

====
